---- MODULE Spec2Model ----
(***************************************************************************)
(* State-machine model of the webgl-snow page script (src/shaders/vertex.js *)
(* holds both variants of the script: the plain one, lines 41-247, and the  *)
(* one with the dat.GUI control panel, lines 248-527).                      *)
(*                                                                          *)
(* Numbers.  options.ratio is kept in hundredths (the panel's step is       *)
(* 0.01), so ratio = 5 stands for 0.05.  Sampled per-particle values        *)
(* (position, velocityY, amplitudeX, angle) are kept in tenths, so that     *)
(* angleX +/- 0.1 is an integer.  Math.random() is a stream u_0, u_1, ...   *)
(* fixed by an unknown seed; the model draws the seed from Seeds and every  *)
(* u_k from {0, 1/2}.                                                       *)
(***************************************************************************)
EXTENDS Integers, Sequences, FiniteSets, TLC

VARIABLES
    variant,        \* "plain" (lines 41-247) or "gui" (lines 248-527)
    webgl,          \* what WebGL.isWebGLAvailable() answers
    viewport,       \* window.visualViewport.height, owned by the browser
    pc,             \* "load" before the top-level script ran, "done" after
    options,        \* the options object
    windowHeight,   \* var windowHeight (0: not assigned)
    scale,          \* var scale (0: not assigned)
    scene,          \* <<>> or <<[background, fog, children]>>
    camera,         \* <<>> or <<[z, aspectHeight]>>
    renderer,       \* <<>> or <<[height]>>
    page,           \* elements appended to the document, in order
    resizeListener, \* window.addEventListener('resize', onWindowResize) done
    guiCreated,     \* createGUI() done
    snowMat,        \* id of the material snowMat refers to (0: undefined)
    spriteMat,      \* id of the material spriteMat refers to (0: undefined)
    materials,      \* the THREE.ShaderMaterial objects, by id
    geometries,     \* the THREE.BufferGeometry objects, by id
    rafPending,     \* a requestAnimationFrame(tick) callback is scheduled
    elapsed,        \* the last value clock.getElapsedTime() returned
    lastHandler,    \* the handler that ran last
    threw,          \* that handler ended with an uncaught exception
    log             \* the scene/resource operations that handler made, in order

vars == <<variant, webgl, viewport, pc, options, windowHeight, scale, scene,
          camera, renderer, page, resizeListener, guiCreated, snowMat,
          spriteMat, materials, geometries, rafPending, elapsed, lastHandler,
          threw, log>>

----------------------------------------------------------------------------
(* Bounds of the model *)

MaxCount == 2
MaxTime == 1
MaxHeap == 4

(* The options literal *)

DefaultBackgroundColor == 658960
DefaultFogRange == 80
DefaultSnowSize == 2
DefaultSpriteSize == 3
DefaultCameraPositionZ == 100
DefaultRangeX == 400
DefaultRangeY == 400
DefaultRangeZ == 100
DefaultVelocityY == 2
DefaultAmplitudeX == 4
DefaultAngleX == 0

(* Values the inputs are drawn from *)

Seeds == {0, 1}
Heights == {600, 800}
Counts == 0 .. MaxCount
Ratios == {10, 50, 100}
BadRatios == {-50, 150}
Colors == {DefaultBackgroundColor, 16777215}
FogRanges == {DefaultFogRange, 0}
SnowSizes == {DefaultSnowSize, 20}
SpriteSizes == {DefaultSpriteSize, 0}

----------------------------------------------------------------------------
(* Library and language primitives *)

Min(a, b) == IF a <= b THEN a ELSE b
Max(a, b) == IF a >= b THEN a ELSE b

\* Mutant of MathRound: Math.floor in its place.
MathFloor(x100) == x100 \div 100

\* Math.round of x100/100: the nearest integer, a tie going up.
MathRound(x100) == (x100 + 50) \div 100

\* new THREE.Color(hex): the three channels of the hex triplet.
Color(hex) == [r |-> hex \div 65536, g |-> (hex \div 256) % 256, b |-> hex % 256]

\* new THREE.Fog(color, near, far)
Fog(color, near, far) == [color |-> Color(color), near |-> near, far |-> far]

\* Twice the k-th number of the Math.random() stream of a seed.
Random2(seed, k) == (seed + k) % 2

\* THREE.MathUtils.randFloat(low, high) = low + Math.random() * (high - low)
randFloat(low, high, u2) == low + (u2 * (high - low)) \div 2

\* THREE.MathUtils.randFloatSpread(range) = range * (0.5 - Math.random())
randFloatSpread(range, u2) == (range * (1 - u2)) \div 2

\* new Float32Array(n).fill(v); n >= 0
Float32ArrayFill(n, v) == [i \in 1 .. n |-> v]

\* BufferAttribute.count = array.length / itemSize
AttributeCount(array, itemSize) == Len(array) \div itemSize

Op(name, id) == [op |-> name, id |-> id]

----------------------------------------------------------------------------
(* newParticleMaterial and newParticleSystem *)

\* newParticleMaterial(size, sprite): a fresh ShaderMaterial with its size,
\* map, uTime and rangeY uniforms; uTime starts at 0 and rangeY is read from
\* options when the material is made.
newParticleMaterial(size, sprite, opts) ==
    [size |-> size, map |-> sprite, uTime |-> 0, rangeY |-> opts.rangeY,
     disposed |-> FALSE]

\* new THREE.BufferGeometry(): no attribute yet.
BufferGeometry ==
    [position |-> <<>>, scale |-> <<>>, velocityY |-> <<>>,
     amplitudeX |-> <<>>, angle |-> <<>>, disposed |-> FALSE]

\* newParticleSystem(material, particleCount), with sc the global scale and
\* the Math.random() stream of seed read from its k0-th number on.
\* new Float32Array(particleCount) throws a RangeError for a negative
\* length, after the BufferGeometry was made and before any attribute is set.
newParticleSystem(material, particleCount, opts, sc, seed, k0) ==
    IF particleCount < 0
    THEN [threw |-> TRUE, geometry |-> BufferGeometry, material |-> material]
    ELSE
      LET n == particleCount
          posOptions == <<opts.rangeX, opts.rangeY, opts.rangeZ>>
          \* particle i makes six draws: x, y, z, vY, aX, a
          U(i, j) == Random2(seed, k0 + 6 * (i - 1) + j)
      IN [threw |-> FALSE,
          material |-> material,
          geometry |->
            [position |->
               [m \in 1 .. 3 * n |->
                  randFloatSpread(10 * posOptions[((m - 1) % 3) + 1],
                                  U(((m - 1) \div 3) + 1, (m - 1) % 3))],
             scale |-> Float32ArrayFill(n, sc),
             velocityY |->
               [i \in 1 .. n |->
                  randFloat(10 * (-opts.velocityY - 1),
                            10 * Min(-opts.velocityY + 1, 0), U(i, 3))],
             amplitudeX |->
               [i \in 1 .. n |->
                  randFloat(10 * Max(opts.amplitudeX - 1, 0),
                            10 * (opts.amplitudeX + 1), U(i, 4))],
             angle |->
               [i \in 1 .. n |->
                  randFloat(10 * opts.angleX - 1, 10 * opts.angleX + 1, U(i, 5))],
             disposed |-> FALSE]]

\* Math.round(options.particleCount * (1.0 - options.ratio))
SnowCount(opts) == MathRound(opts.particleCount * (100 - opts.ratio))

\* Math.round(options.particleCount * options.ratio)
SpriteCount(opts) == MathRound(opts.particleCount * opts.ratio)

\* The heap.  materials and geometries map the id of every object that is
\* still around to its state.  A new object gets the least id not in use.
NewId(heap) ==
    CHOOSE id \in 1 .. Cardinality(DOMAIN heap) + 1 :
      /\ id \notin DOMAIN heap
      /\ \A j \in 1 .. id - 1 : j \in DOMAIN heap

Alloc(heap, object) ==
    [id \in DOMAIN heap \cup {NewId(heap)} |->
       IF id \in DOMAIN heap THEN heap[id] ELSE object]

\* Garbage collection, at the end of a handler: an object the program cannot
\* reach any more and on which dispose() was called is gone.  An unreachable
\* object that was never disposed stays: it is the leak the disposal in
\* remakeSystem is there to prevent.
Collect(heap, reachable) ==
    [id \in {i \in DOMAIN heap : i \in reachable \/ ~heap[i].disposed} |->
       heap[id]]

\* The ids of the geometries and of the materials the program can reach:
\* through the children of the scene, snowMat and spriteMat.
LiveGeometries(children) == {children[i].geometry : i \in 1 .. Len(children)}
LiveMaterials(children, sm, pm) ==
    {children[i].material : i \in 1 .. Len(children)} \cup {sm, pm}

\* The two newParticleSystem calls of render() and of remakeSystem(), in
\* order: the snow system on material sm, then the sprite system on pm.
\* systems holds the Points objects that were returned; a Points object is
\* named by the id of the geometry made for it.
MakeSystems(geoms, sm, pm, opts, sc, seed) ==
    LET snow == newParticleSystem(sm, SnowCount(opts), opts, sc, seed, 0)
        g1 == Alloc(geoms, snow.geometry)
        k1 == 6 * Max(SnowCount(opts), 0)
        sprite == newParticleSystem(pm, SpriteCount(opts), opts, sc, seed, k1)
        g2 == Alloc(g1, sprite.geometry)
        p1 == [geometry |-> NewId(geoms), material |-> sm]
        p2 == [geometry |-> NewId(g1), material |-> pm]
    IN IF snow.threw
       THEN [threw |-> TRUE, geometries |-> g1, systems |-> <<>>]
       ELSE IF sprite.threw
       THEN [threw |-> TRUE, geometries |-> g2, systems |-> <<p1>>]
       ELSE [threw |-> FALSE, geometries |-> g2, systems |-> <<p1, p2>>]

AddOps(systems) == [i \in 1 .. Len(systems) |-> Op("add", systems[i].geometry)]

\* Mutant of MakeMaterials: both materials are made with snowSize.
MakeMaterialsSameSize(mats, opts) ==
    LET m1 == Alloc(mats, newParticleMaterial(opts.snowSize, "snow", opts))
        m2 == Alloc(m1, newParticleMaterial(opts.snowSize, "sprite", opts))
    IN [materials |-> m2, snowMat |-> NewId(mats), spriteMat |-> NewId(m1)]

\* The two newParticleMaterial calls of render() and of updateSprite(): fresh
\* materials for snowMat and spriteMat.
MakeMaterials(mats, opts) ==
    LET m1 == Alloc(mats, newParticleMaterial(opts.snowSize, "snow", opts))
        m2 == Alloc(m1, newParticleMaterial(opts.spriteSize, "sprite", opts))
    IN [materials |-> m2, snowMat |-> NewId(mats), spriteMat |-> NewId(m1)]

----------------------------------------------------------------------------
(* The animation tick *)

\* Mutant of WriteTime: the time of spriteMat is not written.
WriteTimeSnowOnly(mats, sm, pm, time) == [mats EXCEPT ![sm].uTime = time]

\* snowMat.uniforms.uTime.value = time; spriteMat.uniforms.uTime.value = time
WriteTime(mats, sm, pm, time) ==
    [mats EXCEPT ![sm].uTime = time, ![pm].uTime = time]

TickOps(sm, pm) ==
    <<Op("uTime", sm), Op("uTime", pm), Op("requestAnimationFrame", 0),
      Op("render", 0)>>

----------------------------------------------------------------------------
(* Initial state: the page is loaded, the script has not run yet *)

DefaultOptions ==
    [backgroundColor |-> DefaultBackgroundColor, fog |-> TRUE,
     fogRange |-> DefaultFogRange, particleCount |-> 2000, ratio |-> 5,
     snowSize |-> DefaultSnowSize, spriteSize |-> DefaultSpriteSize,
     cameraPositionZ |-> DefaultCameraPositionZ,
     rangeX |-> DefaultRangeX, rangeY |-> DefaultRangeY,
     rangeZ |-> DefaultRangeZ, velocityY |-> DefaultVelocityY,
     amplitudeX |-> DefaultAmplitudeX, angleX |-> DefaultAngleX]

InitWith(ratios) ==
    /\ variant \in {"plain", "gui"}
    /\ webgl \in BOOLEAN
    /\ viewport \in Heights
    /\ pc = "load"
    /\ \E n \in Counts, r \in ratios, f \in BOOLEAN :
         options = [DefaultOptions EXCEPT !.particleCount = n, !.ratio = r,
                                          !.fog = f]
    /\ windowHeight = 0
    /\ scale = 0
    /\ scene = <<>>
    /\ camera = <<>>
    /\ renderer = <<>>
    /\ page = <<>>
    /\ resizeListener = FALSE
    /\ guiCreated = FALSE
    /\ snowMat = 0
    /\ spriteMat = 0
    /\ materials = [id \in {} |-> 0]
    /\ geometries = [id \in {} |-> 0]
    /\ rafPending = FALSE
    /\ elapsed = 0
    /\ lastHandler = "none"
    /\ threw = FALSE
    /\ log = <<>>

\* options as the specification states them: ratio in [0, 1]
Init == InitWith(Ratios)

\* options with any ratio, also outside [0, 1]
InitAnyRatio == InitWith(Ratios \cup BadRatios)

----------------------------------------------------------------------------
(* The top-level script *)

\* Mutant of StartupUnavailable: the resize listener is registered before
\* the availability check.
StartupUnavailableWithListener ==
    /\ pc = "load"
    /\ ~webgl
    /\ pc' = "done"
    /\ page' = Append(page, "warning")
    /\ resizeListener' = TRUE
    /\ lastHandler' = "startup"
    /\ UNCHANGED <<variant, webgl, viewport, options, windowHeight, scale,
                   scene, camera, renderer, guiCreated, snowMat, spriteMat,
                   materials, geometries, rafPending, elapsed, threw, log>>

\* The else branch: WebGL is not available.
StartupUnavailable ==
    /\ pc = "load"
    /\ ~webgl
    /\ pc' = "done"
    /\ page' = Append(page, "warning")
    /\ lastHandler' = "startup"
    /\ UNCHANGED <<variant, webgl, viewport, options, windowHeight, scale,
                   scene, camera, renderer, resizeListener, guiCreated,
                   snowMat, spriteMat, materials, geometries, rafPending,
                   elapsed, threw, log>>

\* The then branch: the globals, init() and render(), with the first tick().
StartupAvailable ==
    /\ pc = "load"
    /\ webgl
    /\ pc' = "done"
    /\ windowHeight' = viewport
    /\ scale' = viewport
    /\ camera' = <<[z |-> options.cameraPositionZ, aspectHeight |-> viewport]>>
    /\ renderer' = <<[height |-> viewport]>>
    /\ page' = page \o (IF variant = "gui" THEN <<"stats">> ELSE <<>>)
                    \o <<"canvas">>
    /\ resizeListener' = TRUE
    /\ guiCreated' = (variant = "gui")
    /\ \E seed \in Seeds :
         \E mats \in {MakeMaterials(materials, options)} :
         \E sm \in {mats.snowMat}, pm \in {mats.spriteMat} :
         \E made \in {MakeSystems(geometries, sm, pm, options, viewport, seed)} :
         \E children \in {IF made.threw THEN <<>> ELSE made.systems} :
            /\ snowMat' = sm
            /\ spriteMat' = pm
            /\ geometries' = Collect(made.geometries, LiveGeometries(children))
            /\ threw' = made.threw
            /\ scene' =
                 <<[background |-> Color(options.backgroundColor),
                    fog |-> IF options.fog
                            THEN <<Fog(options.backgroundColor, options.fogRange,
                                       options.fogRange * 2)>>
                            ELSE <<>>,
                    children |-> children]>>
            /\ materials' = IF made.threw THEN mats.materials
                            ELSE WriteTime(mats.materials, sm, pm, 0)
            /\ rafPending' = ~made.threw
            /\ log' = <<Op("newMaterial", sm), Op("newMaterial", pm)>>
                      \o (IF made.threw THEN <<>>
                          ELSE AddOps(children) \o TickOps(sm, pm))
    /\ elapsed' = 0
    /\ lastHandler' = "startup"
    /\ UNCHANGED <<variant, webgl, viewport, options>>

Startup == StartupAvailable \/ StartupUnavailable

----------------------------------------------------------------------------
(* The frame callback *)

\* tick(), run by the browser for a scheduled animation frame.
Tick ==
    /\ rafPending
    /\ \E time \in elapsed .. Min(elapsed + 1, MaxTime) :
         /\ elapsed' = time
         /\ materials' = WriteTime(materials, snowMat, spriteMat, time)
    /\ rafPending' = TRUE
    /\ log' = TickOps(snowMat, spriteMat)
    /\ lastHandler' = "tick"
    /\ threw' = FALSE
    /\ UNCHANGED <<variant, webgl, viewport, pc, options, windowHeight, scale,
                   scene, camera, renderer, page, resizeListener, guiCreated,
                   snowMat, spriteMat, geometries>>

----------------------------------------------------------------------------
(* The resize listener *)

\* Mutant of ResizeScale: one slot per number of the position array.
ResizeScaleByArrayLength(geometry, sc) ==
    [geometry EXCEPT !.scale = Float32ArrayFill(Len(geometry.position), sc)]

\* The body of the for loop of onWindowResize for one child: a new scale
\* attribute, one slot per vertex of the position attribute.
ResizeScale(geometry, sc) ==
    [geometry EXCEPT
       !.scale = Float32ArrayFill(AttributeCount(geometry.position, 3), sc)]

RECURSIVE ResizeChildren(_, _, _, _)
\* The for loop of onWindowResize, from child i on.
ResizeChildren(children, geoms, sc, i) ==
    IF i > Len(children)
    THEN geoms
    ELSE ResizeChildren(
           children,
           [geoms EXCEPT ![children[i].geometry] =
              ResizeScale(geoms[children[i].geometry], sc)],
           sc, i + 1)

\* The browser resizes the viewport to height h and runs onWindowResize.
Resize ==
    /\ resizeListener
    /\ \E h \in Heights :
         /\ viewport' = h
         /\ windowHeight' = h
         /\ scale' = h
         /\ geometries' = ResizeChildren(scene[1].children, geometries, h, 1)
         /\ camera' = <<[camera[1] EXCEPT !.aspectHeight = h]>>
         /\ renderer' = <<[height |-> h]>>
    /\ lastHandler' = "onWindowResize"
    /\ threw' = FALSE
    /\ log' = <<>>
    /\ UNCHANGED <<variant, webgl, pc, options, scene, page, resizeListener,
                   guiCreated, snowMat, spriteMat, materials, rafPending,
                   elapsed>>

----------------------------------------------------------------------------
(* Rebuilding the particle systems *)

\* geometry.dispose()
DisposeGeometry(geoms, id) == [geoms EXCEPT ![id].disposed = TRUE]

\* Mutant of DisposeMaterial: the material is not disposed.
DisposeMaterialSkipped(mats, id) == mats

\* material.dispose()
DisposeMaterial(mats, id) == [mats EXCEPT ![id].disposed = TRUE]

\* Mutant of RemoveChildren: an if in place of the while, one child removed.
RemoveChildrenOnce(children, geoms, mats, ops) ==
    IF Len(children) > 0
    THEN [children |-> Tail(children),
          geometries |-> [geoms EXCEPT ![children[1].geometry].disposed = TRUE],
          materials |-> [mats EXCEPT ![children[1].material].disposed = TRUE],
          log |-> ops \o <<Op("remove", children[1].geometry),
                           Op("disposeGeometry", children[1].geometry),
                           Op("disposeMaterial", children[1].material)>>]
    ELSE [children |-> children, geometries |-> geoms, materials |-> mats,
          log |-> ops]

RECURSIVE RemoveChildren(_, _, _, _)
\* The while loop of remakeSystem: as long as the scene has a child, remove
\* the first one and dispose its geometry and its material.
RemoveChildren(children, geoms, mats, ops) ==
    IF Len(children) > 0
    THEN LET child == children[1]
         IN RemoveChildren(
              Tail(children),
              DisposeGeometry(geoms, child.geometry),
              DisposeMaterial(mats, child.material),
              ops \o <<Op("remove", child.geometry),
                       Op("disposeGeometry", child.geometry),
                       Op("disposeMaterial", child.material)>>)
    ELSE [children |-> children, geometries |-> geoms, materials |-> mats,
          log |-> ops]

\* remakeSystem(), with sm and pm what snowMat and spriteMat refer to.
remakeSystem(children, geoms, mats, sm, pm, opts, sc, seed) ==
    LET cleared == RemoveChildren(children, geoms, mats, <<>>)
        ranged == [cleared.materials EXCEPT ![sm].rangeY = opts.rangeY,
                                            ![pm].rangeY = opts.rangeY]
        \* the children that were removed and disposed are garbage by now
        geoms1 == Collect(cleared.geometries, LiveGeometries(cleared.children))
        made == MakeSystems(geoms1, sm, pm, opts, sc, seed)
    IN [children |-> cleared.children \o made.systems,
        geometries |-> made.geometries,
        materials |-> ranged,
        threw |-> made.threw,
        log |-> cleared.log \o AddOps(made.systems)]

\* The exploration stops at MaxHeap objects of a kind on the heap.
CanRebuild ==
    /\ Cardinality(DOMAIN geometries) + 2 <= MaxHeap
    /\ Cardinality(DOMAIN materials) + 2 <= MaxHeap

\* The values a Simulation controller can leave in options: a new
\* particleCount (the controller's minimum is 1); the range and motion
\* controllers (rangeX, rangeY, rangeZ, velocityY, amplitudeX, angleX) are
\* left at the value they hold.
SimulationChanges ==
    {[options EXCEPT !.particleCount = n] : n \in Counts \ {0}}

\* The values a Sprites controller can leave in options: a new ratio, a new
\* snowSize or a new spriteSize.
SpritesChanges ==
    {[options EXCEPT !.ratio = r] : r \in Ratios}
    \cup {[options EXCEPT !.snowSize = size] : size \in SnowSizes}
    \cup {[options EXCEPT !.spriteSize = size] : size \in SpriteSizes}

\* A Simulation controller (particleCount, rangeX, rangeY, rangeZ, velocityY,
\* amplitudeX, angleX) finished a change: dat.GUI stores the value in
\* options, then calls remakeSystem.
ChangeSimulation ==
    /\ guiCreated
    /\ CanRebuild
    /\ \E opts \in SimulationChanges, seed \in Seeds :
         \E r \in {remakeSystem(scene[1].children, geometries, materials,
                                 snowMat, spriteMat, opts, scale, seed)} :
            /\ options' = opts
            /\ scene' = <<[scene[1] EXCEPT !.children = r.children]>>
            /\ geometries' = Collect(r.geometries, LiveGeometries(r.children))
            /\ materials' = Collect(r.materials,
                                    LiveMaterials(r.children, snowMat, spriteMat))
            /\ threw' = r.threw
            /\ log' = r.log
    /\ lastHandler' = "remakeSystem"
    /\ UNCHANGED <<variant, webgl, viewport, pc, windowHeight, scale, camera,
                   renderer, page, resizeListener, guiCreated, snowMat,
                   spriteMat, rafPending, elapsed>>

\* A Sprites controller (ratio, snowSize, spriteSize) finished a change:
\* dat.GUI stores the value in options, then calls updateSprite, which makes
\* the two materials anew and calls remakeSystem.
ChangeSprites ==
    /\ guiCreated
    /\ CanRebuild
    /\ \E opts \in SpritesChanges, seed \in Seeds :
         \E mats \in {MakeMaterials(materials, opts)} :
         \E sm \in {mats.snowMat}, pm \in {mats.spriteMat} :
         \E r \in {remakeSystem(scene[1].children, geometries, mats.materials,
                                 sm, pm, opts, scale, seed)} :
            /\ options' = opts
            /\ snowMat' = sm
            /\ spriteMat' = pm
            /\ scene' = <<[scene[1] EXCEPT !.children = r.children]>>
            /\ geometries' = Collect(r.geometries, LiveGeometries(r.children))
            /\ materials' = Collect(r.materials,
                                    LiveMaterials(r.children, sm, pm))
            /\ threw' = r.threw
            /\ log' = <<Op("newMaterial", sm), Op("newMaterial", pm)>> \o r.log
    /\ lastHandler' = "updateSprite"
    /\ UNCHANGED <<variant, webgl, viewport, pc, windowHeight, scale, camera,
                   renderer, page, resizeListener, guiCreated, rafPending,
                   elapsed>>

----------------------------------------------------------------------------
(* The Scene controllers *)

\* Mutant of ChangeBackgroundColor: the fog keeps the color it had.
ChangeBackgroundColorKeepsFog ==
    /\ guiCreated
    /\ \E value \in Colors :
         /\ options' = [options EXCEPT !.backgroundColor = value]
         /\ scene' = <<[scene[1] EXCEPT !.background = Color(value)]>>
    /\ lastHandler' = "sceneController"
    /\ threw' = FALSE
    /\ log' = <<>>
    /\ UNCHANGED <<variant, webgl, viewport, pc, windowHeight, scale, camera,
                   renderer, page, resizeListener, guiCreated, snowMat,
                   spriteMat, materials, geometries, rafPending, elapsed>>

\* backgroundColor.onFinishChange
ChangeBackgroundColor ==
    /\ guiCreated
    /\ \E value \in Colors :
         /\ options' = [options EXCEPT !.backgroundColor = value]
         /\ scene' = <<[scene[1] EXCEPT
                          !.background = Color(value),
                          !.fog = IF options.fog
                                  THEN <<Fog(value, options.fogRange,
                                             options.fogRange * 2)>>
                                  ELSE @]>>
    /\ lastHandler' = "sceneController"
    /\ threw' = FALSE
    /\ log' = <<>>
    /\ UNCHANGED <<variant, webgl, viewport, pc, windowHeight, scale, camera,
                   renderer, page, resizeListener, guiCreated, snowMat,
                   spriteMat, materials, geometries, rafPending, elapsed>>

\* fog.onFinishChange: the checkbox was toggled.
ChangeFog ==
    /\ guiCreated
    /\ LET value == ~options.fog
       IN /\ options' = [options EXCEPT !.fog = value]
          /\ scene' = <<[scene[1] EXCEPT
                           !.fog = IF value
                                   THEN <<Fog(options.backgroundColor,
                                              options.fogRange,
                                              options.fogRange * 2)>>
                                   ELSE <<>>]>>
    /\ lastHandler' = "sceneController"
    /\ threw' = FALSE
    /\ log' = <<>>
    /\ UNCHANGED <<variant, webgl, viewport, pc, windowHeight, scale, camera,
                   renderer, page, resizeListener, guiCreated, snowMat,
                   spriteMat, materials, geometries, rafPending, elapsed>>

\* fogRange.onChange
ChangeFogRange ==
    /\ guiCreated
    /\ \E value \in FogRanges :
         /\ options' = [options EXCEPT !.fogRange = value]
         /\ scene' = <<[scene[1] EXCEPT
                          !.fog = IF options.fog
                                  THEN <<Fog(options.backgroundColor, value,
                                             value * 2)>>
                                  ELSE <<>>]>>
    /\ lastHandler' = "sceneController"
    /\ threw' = FALSE
    /\ log' = <<>>
    /\ UNCHANGED <<variant, webgl, viewport, pc, windowHeight, scale, camera,
                   renderer, page, resizeListener, guiCreated, snowMat,
                   spriteMat, materials, geometries, rafPending, elapsed>>

----------------------------------------------------------------------------

Next ==
    \/ Startup
    \/ Tick
    \/ Resize
    \/ ChangeSimulation
    \/ ChangeSprites
    \/ ChangeBackgroundColor
    \/ ChangeFog
    \/ ChangeFogRange

Spec == Init /\ [][Next]_vars

SpecAnyRatio == InitAnyRatio /\ [][Next]_vars

----------------------------------------------------------------------------
(* Vocabulary of the properties *)

Started == pc = "done" /\ webgl

Children == IF scene = <<>> THEN <<>> ELSE scene[1].children

Rebuilds == {"remakeSystem", "updateSprite"}

\* The places of the log where an operation of a kind was made.
Places(l, name) == {k \in 1 .. Len(l) : l[k].op = name}

\* Every place of as comes before every place of bs.
AllBefore(as, bs) == \A a \in as, b \in bs : a < b

\* The number of particles of a geometry: its vertices.
ParticleCount(geometry) == Len(geometry.position) \div 3

Undisposed(heap) == {id \in DOMAIN heap : ~heap[id].disposed}

----------------------------------------------------------------------------
\* C1: a rebuild (remakeSystem, called directly or through updateSprite)
\* leaves exactly two particle systems in the scene, both created by this
\* rebuild, the snow system on snowMat first and the sprite system on
\* spriteMat second; every system that was in the scene before was removed
\* before the first new one was added.
C1_RebuildLeavesExactlyTheNewSystems ==
    [][lastHandler' \in Rebuilds =>
         LET old == scene[1].children
             new == scene'[1].children
             adds == Places(log', "add")
         IN /\ Len(new) = 2
            /\ Cardinality(adds) = 2
            /\ \A i \in 1 .. Len(old) :
                 \E k \in Places(log', "remove") :
                   /\ log'[k].id = old[i].geometry
                   /\ AllBefore({k}, adds)
            /\ \A i \in 1 .. 2 :
                 \E k \in adds :
                   /\ log'[k].id = new[i].geometry
                   /\ Cardinality({j \in adds : j < k}) = i - 1
            /\ new[1].geometry # new[2].geometry
            /\ new[1].material = snowMat'
            /\ new[2].material = spriteMat'
            /\ \A i \in 1 .. 2 : ~geometries'[new[i].geometry].disposed
    ]_vars

\* C1 witness: a remakeSystem that follows at least two updateSprite calls
\* (snowMat is back on the first id, with the changed snowSize).
C1_Witness ==
    /\ lastHandler = "remakeSystem"
    /\ snowMat = 1
    /\ options.snowSize = 20
    /\ Len(Children) = 2
    /\ ParticleCount(geometries[Children[1].geometry]) > 0

\* C2: in a rebuild every system that is replaced is removed and has its
\* geometry and its material disposed before a new system is added; when the
\* rebuild is over every geometry and every material that no system of the
\* scene uses has been disposed, and at most two geometries and two
\* materials are undisposed.
C2_RebuildDisposesWhatItReplaces ==
    [][lastHandler' \in Rebuilds =>
         LET old == scene[1].children
             new == scene'[1].children
             adds == Places(log', "add")
         IN /\ \A i \in 1 .. Len(old) :
                 \E kr \in Places(log', "remove"),
                    kg \in Places(log', "disposeGeometry"),
                    km \in Places(log', "disposeMaterial") :
                   /\ log'[kr].id = old[i].geometry
                   /\ log'[kg].id = old[i].geometry
                   /\ log'[km].id = old[i].material
                   /\ AllBefore({kr, kg, km}, adds)
            /\ \A id \in DOMAIN geometries' :
                 id \notin LiveGeometries(new) => geometries'[id].disposed
            /\ \A id \in DOMAIN materials' :
                 id \notin {new[i].material : i \in 1 .. Len(new)}
                   => materials'[id].disposed
            /\ Cardinality(Undisposed(geometries')) <= 2
            /\ Cardinality(Undisposed(materials')) <= 2
    ]_vars

\* C2 witness: an updateSprite after an earlier updateSprite: the materials
\* of the first one were replaced and are gone.
C2_Witness ==
    /\ lastHandler = "updateSprite"
    /\ snowMat = 1
    /\ options.snowSize = 20
    /\ DOMAIN materials = {1, 2}
    /\ Undisposed(materials) = {1, 2}
    /\ Undisposed(geometries) = LiveGeometries(Children)

\* C3: after onWindowResize every particle system of the scene has a scale
\* buffer of one slot per particle, every slot the new viewport height; its
\* position, velocityY, amplitudeX and angle buffers are the ones it had,
\* and so is the number of its particles; the scene holds the same systems.
C3_ResizeRewritesOnlyScale ==
    [][lastHandler' = "onWindowResize" =>
         /\ scene'[1].children = scene[1].children
         /\ \A i \in 1 .. Len(scene'[1].children) :
              LET id == scene'[1].children[i].geometry
                  before == geometries[id]
                  after == geometries'[id]
              IN /\ Len(after.scale) = ParticleCount(before)
                 /\ \A k \in 1 .. Len(after.scale) : after.scale[k] = viewport'
                 /\ after.position = before.position
                 /\ after.velocityY = before.velocityY
                 /\ after.amplitudeX = before.amplitudeX
                 /\ after.angle = before.angle
                 /\ Len(after.velocityY) = ParticleCount(before)
    ]_vars

\* C3 witness: a resize to a new height after an updateSprite rebuild, with
\* particles in both systems.
C3_Witness ==
    /\ lastHandler = "onWindowResize"
    /\ snowMat = 3
    /\ Len(Children) = 2
    /\ \A i \in 1 .. 2 :
         /\ ParticleCount(geometries[Children[i].geometry]) = 1
         /\ geometries[Children[i].geometry].scale = <<viewport>>
    /\ \E i \in 1 .. 2 :
         geometries[Children[i].geometry].position # <<0, 0, 0>>

\* C4 (as claimed): startup and every rebuild complete for any ratio: no
\* exception, two systems in the scene, and a system whose computed count
\* is negative has empty buffers.
C4_NegativeCountIsTreatedAsZero ==
    (Started /\ lastHandler \in Rebuilds \cup {"startup"}) =>
      /\ ~threw
      /\ Len(Children) = 2
      /\ SnowCount(options) < 0 =>
           ParticleCount(geometries[Children[1].geometry]) = 0
      /\ SpriteCount(options) < 0 =>
           ParticleCount(geometries[Children[2].geometry]) = 0

\* C5: when WebGL is not available the script creates no scene, camera or
\* renderer, registers no resize listener, builds no control panel, material
\* or particle system and never schedules a frame; one warning element is
\* appended to the page and nothing else.
C5_NoWebGLNoScene ==
    (pc = "done" /\ ~webgl) =>
      /\ scene = <<>>
      /\ camera = <<>>
      /\ renderer = <<>>
      /\ ~resizeListener
      /\ ~guiCreated
      /\ DOMAIN materials = {}
      /\ DOMAIN geometries = {}
      /\ snowMat = 0 /\ spriteMat = 0
      /\ ~rafPending
      /\ page = <<"warning">>

\* C5 witness: the script ran without WebGL.
C5_Witness == pc = "done" /\ ~webgl /\ lastHandler = "startup" /\ Len(page) = 1

\* C6: with ratio in [0, 1], after startup and after every rebuild the snow
\* system holds an integer nearest to N * (1 - ratio) and the sprite system
\* an integer nearest to N * ratio, neither negative; for N = 100 and
\* ratio = 0.1 the two counts are 90 and 10.  (Which way a tie goes is left
\* open: the specification does not fix it.)
C6_SplitCounts ==
    /\ Started =>
         /\ Len(Children) = 2
         /\ LET n == options.particleCount
                r == options.ratio
                snow == ParticleCount(geometries[Children[1].geometry])
                sprite == ParticleCount(geometries[Children[2].geometry])
            IN /\ Children[1].material = snowMat
               /\ Children[2].material = spriteMat
               /\ snow >= 0 /\ sprite >= 0
               /\ 100 * snow - 50 <= n * (100 - r)
               /\ n * (100 - r) <= 100 * snow + 50
               /\ 100 * sprite - 50 <= n * r
               /\ n * r <= 100 * sprite + 50
               /\ Len(geometries[Children[1].geometry].velocityY) = snow
               /\ Len(geometries[Children[2].geometry].velocityY) = sprite
    /\ SnowCount([particleCount |-> 100, ratio |-> 10]) = 90
    /\ SpriteCount([particleCount |-> 100, ratio |-> 10]) = 10

\* C6 witness: a rebuild with N = 2 and ratio = 0.1: 1.8 and 0.2 particles
\* are rounded to 2 and 0.
C6_Witness ==
    /\ lastHandler \in Rebuilds
    /\ options.particleCount = 2
    /\ options.ratio = 10
    /\ ParticleCount(geometries[Children[1].geometry]) = 2
    /\ ParticleCount(geometries[Children[2].geometry]) = 0

\* C7: once the script has started, scene.fog is null exactly when
\* options.fog is false, and otherwise it is a fog of the current background
\* color with near = fogRange and far = 2 * fogRange.
C7_FogFollowsOptions ==
    Started =>
      /\ (scene[1].fog = <<>>) <=> ~options.fog
      /\ options.fog =>
           /\ Len(scene[1].fog) = 1
           /\ scene[1].fog[1].near = options.fogRange
           /\ scene[1].fog[1].far = 2 * options.fogRange
           /\ scene[1].fog[1].color.r * 65536 + scene[1].fog[1].color.g * 256
                + scene[1].fog[1].color.b = options.backgroundColor
           /\ scene[1].fog[1].color.g < 256
           /\ scene[1].fog[1].color.b < 256

\* C7 witness: fog was switched off and on again after the color and the
\* range were changed.
C7_Witness ==
    /\ Started
    /\ options.fog
    /\ options.backgroundColor # DefaultBackgroundColor
    /\ options.fogRange # DefaultFogRange
    /\ scene[1].fog = <<[color |-> [r |-> 255, g |-> 255, b |-> 255],
                          near |-> 0, far |-> 0]>>

\* C8: in a tick the time uniforms of snowMat and spriteMat are written
\* before the next frame is requested, and that before the scene is
\* rendered; at the render every material of a system of the scene has the
\* elapsed time read in this tick as its uTime, and the next frame is
\* scheduled.
C8_TickWritesTimeBeforeRender ==
    (Started /\ (lastHandler = "tick" \/ (lastHandler = "startup" /\ ~threw))) =>
      /\ \E a \in Places(log, "uTime"), b \in Places(log, "uTime") :
           /\ log[a].id = snowMat
           /\ log[b].id = spriteMat
      /\ Places(log, "requestAnimationFrame") # {}
      /\ Places(log, "render") # {}
      /\ AllBefore(Places(log, "uTime"), Places(log, "requestAnimationFrame"))
      /\ AllBefore(Places(log, "requestAnimationFrame"), Places(log, "render"))
      /\ \A i \in 1 .. Len(Children) :
           materials[Children[i].material].uTime = elapsed
      /\ rafPending

\* C8 witness: a tick at time 1 after updateSprite replaced the materials.
C8_Witness ==
    /\ lastHandler = "tick"
    /\ elapsed = 1
    /\ snowMat = 3
    /\ Len(Children) = 2
    /\ materials[3].uTime = 1
    /\ materials[4].uTime = 1

\* C9: updateSprite makes the two materials before it removes or adds a
\* system; when it returns the snow system is on a material whose size is
\* the current snowSize, the sprite system on one whose size is the current
\* spriteSize, and no system is on a material that existed before.
C9_UpdateSpriteRebuildsMaterialsFirst ==
    [][lastHandler' = "updateSprite" =>
         LET new == scene'[1].children
         IN /\ Len(new) = 2
            /\ materials'[new[1].material].size = options'.snowSize
            /\ materials'[new[2].material].size = options'.spriteSize
            /\ \A i \in 1 .. 2 : new[i].material \notin DOMAIN materials
            /\ new[1].material # new[2].material
            /\ Cardinality(Places(log', "newMaterial")) = 2
            /\ \A k \in Places(log', "newMaterial") :
                 log'[k].id \in {new[1].material, new[2].material}
            /\ AllBefore(Places(log', "newMaterial"),
                         Places(log', "remove") \cup Places(log', "add"))
    ]_vars

\* C9 witness: updateSprite after snowSize was changed.
C9_Witness ==
    /\ lastHandler = "updateSprite"
    /\ options.snowSize = 20
    /\ Len(Children) = 2
    /\ materials[Children[1].material].size = 20
    /\ materials[Children[2].material].size = DefaultSpriteSize

\* C10 (as claimed): no system of the scene is on a material on which
\* dispose() was called, and a tick writes the time of no such material.
C10_NoSystemOnDisposedMaterial ==
    Started =>
      /\ \A i \in 1 .. Len(Children) :
           ~materials[Children[i].material].disposed
      /\ lastHandler = "tick" =>
           \A k \in Places(log, "uTime") : ~materials[log[k].id].disposed

====
